---- MODULE Spec2Model ----
(***************************************************************************)
(* Reqline parser: the syntax validator (services/reqline/validator.js),   *)
(* the request executor (services/reqline/executor.js) and the             *)
(* orchestrator (services/reqline/parser.js).                              *)
(*                                                                         *)
(* A JavaScript string is a sequence of one-character strings, so that     *)
(* trim, split, indexOf, startsWith, toUpperCase and encodeURIComponent    *)
(* are computed character by character, as the code computes them.         *)
(***************************************************************************)
EXTENDS Integers, Sequences, FiniteSets, TLC

VARIABLES reqline, pc, parsed, error, calls, now, startTimestamp, fullUrl,
          remote, result, reply, peer

vars == <<reqline, pc, parsed, error, calls, now, startTimestamp, fullUrl,
          remote, result, reply, peer>>

(***************************************************************************)
(* JavaScript strings                                                      *)
(***************************************************************************)
Chars(s) == [i \in 1..Len(s) |-> SubSeq(s, i, i)]

LowerCaseLetters == Chars("abcdefghijklmnopqrstuvwxyz")

UpperCaseLetters == Chars("ABCDEFGHIJKLMNOPQRSTUVWXYZ")

Digits == {"0", "1", "2", "3", "4", "5", "6", "7", "8", "9"}

Range(s) == {s[i] : i \in 1..Len(s)}

\* String.prototype.toUpperCase, one character
UpperChar(c) ==
    IF c \in Range(LowerCaseLetters)
    THEN UpperCaseLetters[CHOOSE i \in 1..26 : LowerCaseLetters[i] = c]
    ELSE c

ToUpperCase(s) == [i \in 1..Len(s) |-> UpperChar(s[i])]

\* String.prototype.startsWith / endsWith
StartsWith(s, p) == Len(p) <= Len(s) /\ SubSeq(s, 1, Len(p)) = p

EndsWith(s, p) == Len(p) <= Len(s) /\ SubSeq(s, Len(s) - Len(p) + 1, Len(s)) = p

\* String.prototype.indexOf: 0-based position of the first occurrence, or -1
FirstOf(hits) ==
    IF hits = {} THEN -1 ELSE (CHOOSE i \in hits : \A j \in hits : i <= j) - 1

IndexOf(s, p) ==
    FirstOf({i \in 1..(Len(s) - Len(p) + 1) : SubSeq(s, i, i + Len(p) - 1) = p})

Includes(s, p) == IndexOf(s, p) # -1

\* String.prototype.substring(from) and substring(from, to), 0-based
SubstringFrom(s, from) == SubSeq(s, from + 1, Len(s))

Substring(s, from, to) == SubSeq(s, from + 1, to)

\* String.prototype.trim (the only white space of the alphabet is the space)
RECURSIVE TrimStart(_)
TrimStart(s) ==
    IF s # <<>> /\ Head(s) = " " THEN TrimStart(Tail(s)) ELSE s

RECURSIVE TrimEnd(_)
TrimEnd(s) ==
    IF s # <<>> /\ s[Len(s)] = " " THEN TrimEnd(SubSeq(s, 1, Len(s) - 1)) ELSE s

Trim(s) == TrimEnd(TrimStart(s))

\* String.prototype.split with a one-character separator; i is the position of
\* the first separator
RECURSIVE SplitAt(_, _, _)
SplitAt(s, sep, i) ==
    IF i = -1 THEN <<s>>
    ELSE <<Substring(s, 0, i)>>
         \o SplitAt(SubstringFrom(s, i + 1), sep, IndexOf(SubstringFrom(s, i + 1), <<sep>>))

Split(s, sep) == SplitAt(s, sep, IndexOf(s, <<sep>>))

\* Array.prototype.join
RECURSIVE Join(_, _)
Join(parts, sep) ==
    IF parts = <<>> THEN <<>>
    ELSE IF Len(parts) = 1 THEN parts[1]
    ELSE parts[1] \o sep \o Join(Tail(parts), sep)

(***************************************************************************)
(* messages/reqline.js and the error codes of @app-core/errors             *)
(***************************************************************************)
MISSING_HTTP_KEYWORD == "Missing required HTTP keyword"

MISSING_URL_KEYWORD == "Missing required URL keyword"

INVALID_HTTP_METHOD == "Invalid HTTP method. Only GET and POST are supported"

HTTP_METHOD_MUST_BE_UPPERCASE == "HTTP method must be uppercase"

KEYWORDS_MUST_BE_UPPERCASE == "Keywords must be uppercase"

MISSING_SPACE_AFTER_KEYWORD == "Missing space after keyword"

MULTIPLE_SPACES_FOUND == "Multiple spaces found where single space expected"

INVALID_SPACING_AROUND_PIPE == "Invalid spacing around pipe delimiter"

INVALID_JSON_FORMAT_HEADERS == "Invalid JSON format in HEADERS section"

INVALID_JSON_FORMAT_QUERY == "Invalid JSON format in QUERY section"

INVALID_JSON_FORMAT_BODY == "Invalid JSON format in BODY section"

EMPTY_REQLINE == "Reqline string cannot be empty"

HTTP_MUST_BE_FIRST == "HTTP keyword must be first"

URL_MUST_BE_SECOND == "URL keyword must be second"

DUPLICATE_HTTP_KEYWORD == "HTTP keyword can only appear once"

DUPLICATE_URL_KEYWORD == "URL keyword can only appear once"

INVALID_URL_FORMAT == "Invalid URL format"

UNKNOWN_KEYWORD == "Unknown keyword found"

MISSING_PIPE_DELIMITER == "Missing pipe delimiter"

VALIDATIONERR == "VALIDATIONERR"

APPERR == "APPERR"

\* no error thrown
NoError == ""

(***************************************************************************)
(* JavaScript values: t is the type, s the text of a scalar (digits of a   *)
(* number, content of a string, the literal of null/true/false), e the     *)
(* own enumerable entries <<key, value>> of an object or an array.         *)
(***************************************************************************)
JsScalar(t, s) == [t |-> t, s |-> s, e |-> <<>>]

JsObject(entries) == [t |-> "object", s |-> <<>>, e |-> entries]

JsArray(entries) == [t |-> "array", s |-> <<>>, e |-> entries]

JsNull == JsScalar("null", Chars("null"))

JsUndefined == JsScalar("undefined", Chars("undefined"))

EmptyObject == JsObject(<<>>)

(***************************************************************************)
(* JSON.parse over the alphabet of the model: white space is the space,    *)
(* numbers are non-negative integers, strings carry no escape.             *)
(***************************************************************************)
JsonPunct == {"{", "}", "[", "]", ",", ":"}

JsonDelims == JsonPunct \cup {" ", "\""}

\* the kind of a bare word: null, true, false, an integer, or no JSON at all
LitKind(w) ==
    IF w = Chars("null") THEN "null"
    ELSE IF w = Chars("true") \/ w = Chars("false") THEN "boolean"
    ELSE IF w # <<>> /\ Range(w) \subseteq Digits /\ (Len(w) = 1 \/ w[1] # "0")
         THEN "number"
    ELSE "bad"

\* the position after the bare word that starts at i
RECURSIVE WordEnd(_, _)
WordEnd(s, i) ==
    IF i > Len(s) \/ s[i] \in JsonDelims THEN i ELSE WordEnd(s, i + 1)

\* the position of the quote that closes the string opened before i, 0 if none
RECURSIVE QuoteEnd(_, _)
QuoteEnd(s, i) ==
    IF i > Len(s) THEN 0 ELSE IF s[i] = "\"" THEN i ELSE QuoteEnd(s, i + 1)

RECURSIVE JsonLex(_, _)
RECURSIVE LexString(_, _, _)
RECURSIVE LexWord(_, _, _)
JsonLex(s, i) ==
    IF i > Len(s) THEN <<>>
    ELSE IF s[i] = " " THEN JsonLex(s, i + 1)
    ELSE IF s[i] \in JsonPunct
         THEN <<[k |-> s[i], s |-> <<>>]>> \o JsonLex(s, i + 1)
    ELSE IF s[i] = "\"" THEN LexString(s, i, QuoteEnd(s, i + 1))
    ELSE LexWord(s, i, WordEnd(s, i))

\* the string token from the quote at i to the quote at j
LexString(s, i, j) ==
    IF j = 0 THEN <<[k |-> "bad", s |-> <<>>]>>
    ELSE <<[k |-> "string", s |-> SubSeq(s, i + 1, j - 1)]>> \o JsonLex(s, j + 1)

\* the bare word from i up to j
LexWord(s, i, j) ==
    <<[k |-> LitKind(SubSeq(s, i, j - 1)), s |-> SubSeq(s, i, j - 1)]>> \o JsonLex(s, j)

JsonScalarKinds == {"string", "number", "boolean", "null"}

\* the position after the JSON value that starts at token i, 0 if there is none
RECURSIVE EndOfValue(_, _)
RECURSIVE EndOfElements(_, _)
RECURSIVE EndOfMembers(_, _)
EndOfValue(t, i) ==
    IF i > Len(t) THEN 0
    ELSE IF t[i].k \in JsonScalarKinds THEN i + 1
    ELSE IF t[i].k = "[" THEN
         IF i + 1 <= Len(t) /\ t[i + 1].k = "]" THEN i + 2 ELSE EndOfElements(t, i + 1)
    ELSE IF t[i].k = "{" THEN
         IF i + 1 <= Len(t) /\ t[i + 1].k = "}" THEN i + 2 ELSE EndOfMembers(t, i + 1)
    ELSE 0

\* e is the position after the element that starts at i
ElementsFrom(t, e) ==
    IF e = 0 \/ e > Len(t) THEN 0
    ELSE IF t[e].k = "," THEN EndOfElements(t, e + 1)
    ELSE IF t[e].k = "]" THEN e + 1
    ELSE 0

EndOfElements(t, i) == ElementsFrom(t, EndOfValue(t, i))

\* e is the position after the value of the member that starts at i
MembersFrom(t, e) ==
    IF e = 0 \/ e > Len(t) THEN 0
    ELSE IF t[e].k = "," THEN EndOfMembers(t, e + 1)
    ELSE IF t[e].k = "}" THEN e + 1
    ELSE 0

EndOfMembers(t, i) ==
    IF i + 1 > Len(t) \/ t[i].k # "string" \/ t[i + 1].k # ":" THEN 0
    ELSE MembersFrom(t, EndOfValue(t, i + 2))

DigitChar(n) == Chars("0123456789")[n + 1]

RECURSIVE NatToChars(_)
NatToChars(n) ==
    IF n < 10 THEN <<DigitChar(n)>>
    ELSE NatToChars(n \div 10) \o <<DigitChar(n % 10)>>

RECURSIVE CharsToNat(_)
CharsToNat(w) ==
    IF w = <<>> THEN 0
    ELSE 10 * CharsToNat(SubSeq(w, 1, Len(w) - 1))
         + (CHOOSE d \in 0..9 : DigitChar(d) = w[Len(w)])

\* an integer-like property key (an array index): enumerated first, ascending
IsIndexKey(key) == LitKind(key) = "number"

\* own property order of a JavaScript object: a repeated key keeps its first
\* position and its last value; index keys come first in ascending order
RECURSIVE PutEntry(_, _)
PutEntry(entries, kv) ==
    IF entries = <<>> THEN <<kv>>
    ELSE IF Head(entries)[1] = kv[1] THEN <<kv>> \o Tail(entries)
    ELSE <<Head(entries)>> \o PutEntry(Tail(entries), kv)

RECURSIVE PutAll(_, _)
PutAll(entries, kvs) ==
    IF kvs = <<>> THEN entries ELSE PutAll(PutEntry(entries, Head(kvs)), Tail(kvs))

RECURSIVE SortIndexKeys(_)
SortIndexKeys(entries) ==
    IF entries = <<>> THEN <<>>
    ELSE LET m == CHOOSE i \in 1..Len(entries) :
                      \A j \in 1..Len(entries) :
                          CharsToNat(entries[i][1]) <= CharsToNat(entries[j][1])
         IN  <<entries[m]>>
             \o SortIndexKeys(SubSeq(entries, 1, m - 1) \o SubSeq(entries, m + 1, Len(entries)))

PropertyOrder(put) ==
    SortIndexKeys(SelectSeq(put, LAMBDA kv : IsIndexKey(kv[1])))
    \o SelectSeq(put, LAMBDA kv : ~IsIndexKey(kv[1]))

OwnPropertyOrder(members) == PropertyOrder(PutAll(<<>>, members))

\* the value that starts at token i of a well-formed token sequence
RECURSIVE ValueAt(_, _)
RECURSIVE Elements(_, _, _)
RECURSIVE Members(_, _)
ValueAt(t, i) ==
    IF t[i].k \in JsonScalarKinds THEN JsScalar(t[i].k, t[i].s)
    ELSE IF t[i].k = "[" THEN
         IF t[i + 1].k = "]" THEN JsArray(<<>>) ELSE JsArray(Elements(t, i + 1, 0))
    ELSE IF t[i + 1].k = "}" THEN JsObject(<<>>)
    ELSE JsObject(OwnPropertyOrder(Members(t, i + 1)))

\* e is the position after the element that starts at i
ElementsUpTo(t, i, n, e) ==
    <<<<NatToChars(n), ValueAt(t, i)>>>>
    \o (IF t[e].k = "," THEN Elements(t, e + 1, n + 1) ELSE <<>>)

Elements(t, i, n) == ElementsUpTo(t, i, n, EndOfValue(t, i))

\* e is the position after the value of the member that starts at i
MembersUpTo(t, i, e) ==
    <<<<t[i].s, ValueAt(t, i + 2)>>>>
    \o (IF t[e].k = "," THEN Members(t, e + 1) ELSE <<>>)

Members(t, i) == MembersUpTo(t, i, EndOfValue(t, i + 2))

\* JSON.parse of the tokens t
JsonParseTokens(t) ==
    IF EndOfValue(t, 1) = Len(t) + 1
    THEN [ok |-> TRUE, val |-> ValueAt(t, 1)]
    ELSE [ok |-> FALSE, val |-> JsUndefined]

\* JSON.parse: ok is FALSE where JSON.parse throws a SyntaxError
JsonParse(text) == JsonParseTokens(JsonLex(text, 1))

\* String(value), as a template literal and encodeURIComponent coerce it
RECURSIVE JsToString(_)
JsToString(v) ==
    IF v.t = "object" THEN Chars("[object Object]")
    ELSE IF v.t = "array"
         THEN Join([i \in 1..Len(v.e) |->
                       IF v.e[i][2].t \in {"null", "undefined"} THEN <<>>
                       ELSE JsToString(v.e[i][2])], <<",">>)
    ELSE v.s

\* Object.entries(value): own enumerable string-keyed properties
ObjectEntries(v) ==
    IF v.t \in {"object", "array"} THEN v.e
    ELSE IF v.t = "string" THEN [i \in 1..Len(v.s) |-> <<NatToChars(i - 1), JsScalar("string", <<v.s[i]>>)>>]
    ELSE <<>>

\* ToBoolean(value): false for null, undefined, false, 0 and the empty string
Truthy(v) ==
    ~ \/ v.t \in {"null", "undefined"}
      \/ v.t = "boolean" /\ v.s = Chars("false")
      \/ v.t = "number" /\ v.s = Chars("0")
      \/ v.t = "string" /\ v.s = <<>>

(***************************************************************************)
(* ReqlineValidator (services/reqline/validator.js).  A function that      *)
(* throws returns the message in err; err = NoError when it returns.       *)
(***************************************************************************)
\* the result object parseSegments starts from
InitialResult ==
    [method |-> JsNull, url |-> JsNull,
     headers |-> EmptyObject, query |-> EmptyObject, body |-> EmptyObject]

\* splitByPipe_words that looks for the URL keyword first
splitByPipe_words_UrlFirst(words) ==
    [err |-> IF Chars("URL") \notin words /\ Chars("url") \notin words
             THEN MISSING_URL_KEYWORD
             ELSE IF Chars("HTTP") \notin words /\ Chars("http") \notin words
             THEN MISSING_HTTP_KEYWORD
             ELSE MISSING_PIPE_DELIMITER,
     segments |-> <<>>]

\* splitByPipe for a string without pipe: always throws
splitByPipe_words(words) ==
    [err |-> IF Chars("HTTP") \notin words /\ Chars("http") \notin words
             THEN MISSING_HTTP_KEYWORD
             ELSE IF Chars("URL") \notin words /\ Chars("url") \notin words
             THEN MISSING_URL_KEYWORD
             ELSE MISSING_PIPE_DELIMITER,
     segments |-> <<>>]

\* splitByPipe_segments without the checks of the spaces next to a pipe
splitByPipe_segments_TrimOnly(segments) ==
    [err |-> NoError, segments |-> [i \in 1..Len(segments) |-> Trim(segments[i])]]

\* splitByPipe for the segments of str.split('|')
splitByPipe_segments(segments) ==
    IF \E index \in 0..(Len(segments) - 1) :
           \/ index > 0 /\ ~StartsWith(segments[index + 1], <<" ">>)
           \/ index < Len(segments) - 1 /\ ~EndsWith(segments[index + 1], <<" ">>)
    THEN [err |-> INVALID_SPACING_AROUND_PIPE, segments |-> <<>>]
    ELSE [err |-> NoError,
          segments |-> [i \in 1..Len(segments) |-> Trim(segments[i])]]

splitByPipe(str) ==
    IF ~Includes(str, <<"|">>)
    THEN splitByPipe_words(Range(Split(str, " ")))
    ELSE splitByPipe_segments(Split(str, "|"))

\* parseSegmentParts once keyword and value are cut at the first space
parseSegmentParts_checks(segment, keyword, value) ==
    IF keyword # ToUpperCase(keyword)
    THEN [err |-> KEYWORDS_MUST_BE_UPPERCASE, keyword |-> keyword, value |-> value]
    ELSE IF IndexOf(segment, <<" ", " ">>) # -1
    THEN [err |-> MULTIPLE_SPACES_FOUND, keyword |-> keyword, value |-> value]
    ELSE [err |-> NoError, keyword |-> keyword, value |-> value]

\* parseSegmentParts once the first space is located
parseSegmentParts_at(segment, spaceIndex) ==
    IF spaceIndex = -1
    THEN [err |-> MISSING_SPACE_AFTER_KEYWORD, keyword |-> <<>>, value |-> <<>>]
    ELSE parseSegmentParts_checks(segment, Substring(segment, 0, spaceIndex),
                                  SubstringFrom(segment, spaceIndex + 1))

parseSegmentParts(segment) == parseSegmentParts_at(segment, IndexOf(segment, <<" ">>))

\* validateHttpMethod with its two checks in the other order
validateHttpMethod_MembershipFirst(method) ==
    IF method \notin {Chars("GET"), Chars("POST")} THEN INVALID_HTTP_METHOD
    ELSE IF method # ToUpperCase(method) THEN HTTP_METHOD_MUST_BE_UPPERCASE
    ELSE NoError

validateHttpMethod(method) ==
    IF method # ToUpperCase(method) THEN HTTP_METHOD_MUST_BE_UPPERCASE
    ELSE IF method \notin {Chars("GET"), Chars("POST")} THEN INVALID_HTTP_METHOD
    ELSE NoError

\* validateUrl without the check that something follows the scheme
validateUrl_SchemeOnly(url) ==
    IF url = <<>> THEN INVALID_URL_FORMAT
    ELSE IF ~StartsWith(url, Chars("http://")) /\ ~StartsWith(url, Chars("https://"))
    THEN INVALID_URL_FORMAT
    ELSE NoError

validateUrl(url) ==
    IF url = <<>> THEN INVALID_URL_FORMAT
    ELSE IF ~StartsWith(url, Chars("http://")) /\ ~StartsWith(url, Chars("https://"))
    THEN INVALID_URL_FORMAT
    ELSE IF IndexOf(url, Chars("://")) = -1 \/ Len(url) <= IndexOf(url, Chars("://")) + 3
    THEN INVALID_URL_FORMAT
    ELSE NoError

\* parseJsonValue once JSON.parse has returned or thrown
parseJsonValue_result(p, fieldName) ==
    IF p.ok THEN [err |-> NoError, val |-> p.val]
    ELSE [err |-> CASE fieldName = "HEADERS" -> INVALID_JSON_FORMAT_HEADERS
                    [] fieldName = "QUERY"   -> INVALID_JSON_FORMAT_QUERY
                    [] fieldName = "BODY"    -> INVALID_JSON_FORMAT_BODY,
          val |-> JsUndefined]

parseJsonValue(value, fieldName) == parseJsonValue_result(JsonParse(value), fieldName)

\* caseHttp that checks the position before the repetition
caseHttp_PositionFirst(err, value, index, st) ==
    IF index # 0 THEN [st EXCEPT !.err = HTTP_MUST_BE_FIRST]
    ELSE IF st.httpFound THEN [st EXCEPT !.err = DUPLICATE_HTTP_KEYWORD]
    ELSE IF err # NoError THEN [st EXCEPT !.err = err]
    ELSE [st EXCEPT !.result.method = JsScalar("string", value), !.httpFound = TRUE]

\* case 'HTTP' of the switch; err is what validateHttpMethod threw
caseHttp(err, value, index, st) ==
    IF st.httpFound THEN [st EXCEPT !.err = DUPLICATE_HTTP_KEYWORD]
    ELSE IF index # 0 THEN [st EXCEPT !.err = HTTP_MUST_BE_FIRST]
    ELSE IF err # NoError THEN [st EXCEPT !.err = err]
    ELSE [st EXCEPT !.result.method = JsScalar("string", value), !.httpFound = TRUE]

\* case 'URL' of the switch; err is what validateUrl threw
caseUrl(err, value, index, st) ==
    IF st.urlFound THEN [st EXCEPT !.err = DUPLICATE_URL_KEYWORD]
    ELSE IF index # 1 THEN [st EXCEPT !.err = URL_MUST_BE_SECOND]
    ELSE IF err # NoError THEN [st EXCEPT !.err = err]
    ELSE [st EXCEPT !.result.url = JsScalar("string", value), !.urlFound = TRUE]

\* caseJson in which HEADERS and QUERY reset the body
caseJson_ClearsBody(json, field, st) ==
    IF json.err # NoError THEN [st EXCEPT !.err = json.err]
    ELSE IF field # "body"
    THEN [st EXCEPT !.result[field] = json.val, !.result.body = EmptyObject]
    ELSE [st EXCEPT !.result[field] = json.val]

\* caseJson that keeps the value of an earlier occurrence of the keyword
caseJson_FirstWins(json, field, st) ==
    IF json.err # NoError THEN [st EXCEPT !.err = json.err]
    ELSE IF st.result[field] # EmptyObject THEN st
    ELSE [st EXCEPT !.result[field] = json.val]

\* cases 'HEADERS', 'QUERY', 'BODY' of the switch; json is what parseJsonValue
\* returned or threw
caseJson(json, field, st) ==
    IF json.err # NoError THEN [st EXCEPT !.err = json.err]
    ELSE [st EXCEPT !.result[field] = json.val]

\* the switch on parts.keyword
switchKeyword(parts, index, st) ==
    IF parts.err # NoError THEN [st EXCEPT !.err = parts.err]
    ELSE IF parts.keyword = Chars("HTTP")
    THEN caseHttp(validateHttpMethod(parts.value), parts.value, index, st)
    ELSE IF parts.keyword = Chars("URL")
    THEN caseUrl(validateUrl(parts.value), parts.value, index, st)
    ELSE IF parts.keyword = Chars("HEADERS")
    THEN caseJson(parseJsonValue(parts.value, "HEADERS"), "headers", st)
    ELSE IF parts.keyword = Chars("QUERY")
    THEN caseJson(parseJsonValue(parts.value, "QUERY"), "query", st)
    ELSE IF parts.keyword = Chars("BODY")
    THEN caseJson(parseJsonValue(parts.value, "BODY"), "body", st)
    ELSE [st EXCEPT !.err = UNKNOWN_KEYWORD]

\* the callback of segments.forEach in parseSegments, applied to one segment;
\* st carries result, httpFound, urlFound and the message thrown, if any
parseSegment(segment, index, st) ==
    IF segment = <<>> THEN [st EXCEPT !.err = INVALID_SPACING_AROUND_PIPE]
    ELSE switchKeyword(parseSegmentParts(segment), index, st)

\* segments.forEach from index on: stops at the first throw
RECURSIVE forEachSegment(_, _, _)
forEachSegment(segments, index, st) ==
    IF index >= Len(segments) \/ st.err # NoError THEN st
    ELSE forEachSegment(segments, index + 1, parseSegment(segments[index + 1], index, st))

\* the checks of parseSegments after the loop, without the check of httpFound
requiredFields_NoHttpCheck(st) ==
    IF st.err # NoError THEN [err |-> st.err, result |-> InitialResult]
    ELSE IF ~st.urlFound THEN [err |-> MISSING_URL_KEYWORD, result |-> InitialResult]
    ELSE [err |-> NoError, result |-> st.result]

\* the checks of parseSegments after the loop
requiredFields(st) ==
    IF st.err # NoError THEN [err |-> st.err, result |-> InitialResult]
    ELSE IF ~st.httpFound THEN [err |-> MISSING_HTTP_KEYWORD, result |-> InitialResult]
    ELSE IF ~st.urlFound THEN [err |-> MISSING_URL_KEYWORD, result |-> InitialResult]
    ELSE [err |-> NoError, result |-> st.result]

parseSegments(segments) ==
    requiredFields(forEachSegment(segments, 0,
        [err |-> NoError, result |-> InitialResult, httpFound |-> FALSE, urlFound |-> FALSE]))

\* parseReqlineSyntax once splitByPipe has returned or thrown
parseReqlineSyntax_split(split) ==
    IF split.err # NoError THEN [err |-> split.err, result |-> InitialResult]
    ELSE parseSegments(split.segments)

\* parseReqlineSyntax on the trimmed string
parseReqlineSyntax_cleaned(cleaned) ==
    IF cleaned = <<>> THEN [err |-> EMPTY_REQLINE, result |-> InitialResult]
    ELSE parseReqlineSyntax_split(splitByPipe(cleaned))

parseReqlineSyntax(reqlineString) == parseReqlineSyntax_cleaned(Trim(reqlineString))

(***************************************************************************)
(* ReqlineExecutor (services/reqline/executor.js)                          *)
(***************************************************************************)
\* the characters encodeURIComponent leaves alone
UriUnreserved ==
    Range(LowerCaseLetters) \cup Range(UpperCaseLetters) \cup Digits
    \cup {"-", "_", ".", "!", "~", "*", "'", "(", ")"}

\* the escape of every other character of the alphabet
UriEscapes ==
    << <<" ", "%20">>, <<"\"", "%22">>, <<"#", "%23">>, <<"$", "%24">>,
       <<"%", "%25">>, <<"&", "%26">>, <<"+", "%2B">>, <<",", "%2C">>,
       <<"/", "%2F">>, <<":", "%3A">>, <<";", "%3B">>, <<"<", "%3C">>,
       <<"=", "%3D">>, <<">", "%3E">>, <<"?", "%3F">>, <<"@", "%40">>,
       <<"[", "%5B">>, <<"]", "%5D">>, <<"^", "%5E">>, <<"{", "%7B">>,
       <<"|", "%7C">>, <<"}", "%7D">> >>

EncodeChar(c) ==
    IF c \in UriUnreserved THEN <<c>>
    ELSE Chars(UriEscapes[CHOOSE i \in 1..Len(UriEscapes) : UriEscapes[i][1] = c][2])

RECURSIVE encodeURIComponent(_)
encodeURIComponent(s) ==
    IF s = <<>> THEN <<>> ELSE EncodeChar(Head(s)) \o encodeURIComponent(Tail(s))

\* buildFullUrl that always appends with '?'
buildFullUrl_AlwaysQuestionMark(baseUrl, queryParams) ==
    IF ~Truthy(queryParams) \/ Len(ObjectEntries(queryParams)) = 0 THEN baseUrl
    ELSE LET entries     == ObjectEntries(queryParams)
             queryString ==
                 Join([i \in 1..Len(entries) |->
                          encodeURIComponent(entries[i][1]) \o <<"=">>
                          \o encodeURIComponent(JsToString(entries[i][2]))], <<"&">>)
         IN  baseUrl \o <<"?">> \o queryString

buildFullUrl(baseUrl, queryParams) ==
    IF ~Truthy(queryParams) \/ Len(ObjectEntries(queryParams)) = 0 THEN baseUrl
    ELSE LET entries     == ObjectEntries(queryParams)
             queryString ==
                 Join([i \in 1..Len(entries) |->
                          encodeURIComponent(entries[i][1]) \o <<"=">>
                          \o encodeURIComponent(JsToString(entries[i][2]))], <<"&">>)
             separator   == IF Includes(baseUrl, <<"?">>) THEN <<"&">> ELSE <<"?">>
         IN  baseUrl \o separator \o queryString

\* a || b
JsOr(a, b) == IF Truthy(a) THEN a ELSE b

JsNumber(digits) == JsScalar("number", Chars(digits))

JsString(text) == JsScalar("string", Chars(text))

\* requestConfig.timeout
Timeout == 10000

\* OutboundCall that hands the body to HttpRequest.get as well
OutboundCall_BodyOnGet(parsedRequest) ==
    [method  |-> parsedRequest.method.s,
     url     |-> buildFullUrl(parsedRequest.url.s, parsedRequest.query),
     body    |-> parsedRequest.body,
     headers |-> parsedRequest.headers,
     timeout |-> Timeout]

\* the call handed to HttpRequest.get / HttpRequest.post
OutboundCall(parsedRequest) ==
    [method  |-> parsedRequest.method.s,
     url     |-> buildFullUrl(parsedRequest.url.s, parsedRequest.query),
     body    |-> IF parsedRequest.method.s = Chars("POST")
                 THEN parsedRequest.body ELSE JsUndefined,
     headers |-> parsedRequest.headers,
     timeout |-> Timeout]

\* SuccessResult with the operands of the duration exchanged
SuccessResult_NegatedDuration(parsedRequest, builtUrl, response, startTs, stopTs) ==
    [request  |-> [query    |-> parsedRequest.query,
                   body     |-> parsedRequest.body,
                   headers  |-> parsedRequest.headers,
                   full_url |-> builtUrl],
     response |-> [http_status |-> JsOr(response.statusCode, JsOr(response.status, JsNumber("200"))),
                   duration |-> startTs - stopTs,
                   request_start_timestamp |-> startTs,
                   request_stop_timestamp  |-> stopTs,
                   response_data |-> response.data]]

\* the object returned when the awaited call resolves with response
SuccessResult(parsedRequest, builtUrl, response, startTs, stopTs) ==
    [request  |-> [query    |-> parsedRequest.query,
                   body     |-> parsedRequest.body,
                   headers  |-> parsedRequest.headers,
                   full_url |-> builtUrl],
     response |-> [http_status |-> JsOr(response.statusCode, JsOr(response.status, JsNumber("200"))),
                   duration |-> stopTs - startTs,
                   request_start_timestamp |-> startTs,
                   request_stop_timestamp  |-> stopTs,
                   response_data |-> response.data]]

\* ErrorResult with the two timestamps exchanged
ErrorResult_SwappedTimestamps(parsedRequest, errorResponse, startTs, stopTs) ==
    [request  |-> [query    |-> parsedRequest.query,
                   body     |-> parsedRequest.body,
                   headers  |-> parsedRequest.headers,
                   full_url |-> buildFullUrl(parsedRequest.url.s, parsedRequest.query)],
     response |-> [http_status |-> JsOr(errorResponse.statusCode, errorResponse.status),
                   duration |-> stopTs - startTs,
                   request_start_timestamp |-> stopTs,
                   request_stop_timestamp  |-> startTs,
                   response_data |-> JsOr(errorResponse.data, JsNull)]]

\* the object returned from the catch block when error.response is set
ErrorResult(parsedRequest, errorResponse, startTs, stopTs) ==
    [request  |-> [query    |-> parsedRequest.query,
                   body     |-> parsedRequest.body,
                   headers  |-> parsedRequest.headers,
                   full_url |-> buildFullUrl(parsedRequest.url.s, parsedRequest.query)],
     response |-> [http_status |-> JsOr(errorResponse.statusCode, errorResponse.status),
                   duration |-> stopTs - startTs,
                   request_start_timestamp |-> startTs,
                   request_stop_timestamp  |-> stopTs,
                   response_data |-> JsOr(errorResponse.data, JsNull)]]

\* ExecutionError raised with the code of a validation error
ExecutionError_ValidationCode(message) ==
    [code |-> VALIDATIONERR, message |-> "Request execution failed: " \o message]

\* the error the catch block re-throws for a failure without a response
ExecutionError(message) ==
    [code |-> APPERR, message |-> "Request execution failed: " \o message]

ValidationError(message) == [code |-> VALIDATIONERR, message |-> message]

(***************************************************************************)
(* Bounds and inputs                                                       *)
(***************************************************************************)
\* segments of a reqline assembled from arbitrary pieces and separators
MaxSegments == 2

\* HEADERS/QUERY/BODY segments (and misplaced ones) after a valid HTTP | URL head
MaxExtras == 3

\* milliseconds that may pass while the outbound call is pending
MaxClock == 1

Pieces ==
    {Chars(p) : p \in
        {"HTTP GET", "HTTP get", "HTTP PUT", "http GET", "http  get", "HTTP  GET", "HTTP", "",
         "FOO 1",
         "URL http://a", "URL https://", "URL ftp://a", "url http://a", "URLhttp://a",
         "HEADERS {}", "HEADERS {bad}", "BODY [1]"}}

Separators == {Chars(sep) : sep \in {" | ", "|", " |", "| ", "  |  ", " "}}

\* pieces[1] seps[1] pieces[2] ... pieces[n]
RECURSIVE Assemble(_, _)
Assemble(pieces, seps) ==
    IF Len(pieces) = 1 THEN pieces[1]
    ELSE pieces[1] \o seps[1] \o Assemble(Tail(pieces), Tail(seps))

Heads == {Chars(h) : h \in {"HTTP GET | URL http://a", " HTTP POST | URL https://a?b=1"}}

Extras ==
    {Chars(x) : x \in
        {"HEADERS {\"k\":\"v\"}", "HEADERS null", "HEADERS {bad}",
         "QUERY {\"q\":\"x y\",\"1\":true}", "QUERY {\"a\":1}",
         "BODY {\"b\":2}", "URL http://a"}}

\* head | extras[1] | ... | extras[n]
RECURSIVE Extend(_, _)
Extend(head, extras) ==
    IF extras = <<>> THEN head
    ELSE Extend(head \o Chars(" | ") \o Head(extras), Tail(extras))

\* what the remote server may answer: statusCode, status and data of a response
RemoteData == JsObject(<< <<Chars("id"), JsNumber("3")>> >>)

Responses ==
    {[statusCode |-> JsUndefined, status |-> JsNumber("200"), data |-> RemoteData],
     [statusCode |-> JsNumber("201"), status |-> JsUndefined, data |-> JsString("")],
     [statusCode |-> JsUndefined, status |-> JsUndefined, data |-> RemoteData]}

ErrorResponses ==
    {[statusCode |-> JsUndefined, status |-> JsNumber("404"), data |-> RemoteData],
     [statusCode |-> JsNumber("500"), status |-> JsUndefined, data |-> JsString("")],
     [statusCode |-> JsNumber("503"), status |-> JsUndefined, data |-> JsUndefined]}

\* messages of failures that carry no response
TransportMessages == {"timeout of 10000ms exceeded", "getaddrinfo ENOTFOUND a"}

NoResponse == [statusCode |-> JsUndefined, status |-> JsUndefined, data |-> JsUndefined]

NoRemote == [kind |-> "none", response |-> NoResponse, message |-> ""]

NoError2 == [code |-> "", message |-> ""]

NoResult ==
    [request  |-> [query |-> JsUndefined, body |-> JsUndefined,
                   headers |-> JsUndefined, full_url |-> <<>>],
     response |-> [http_status |-> JsUndefined, duration |-> 0,
                   request_start_timestamp |-> 0, request_stop_timestamp |-> 0,
                   response_data |-> JsUndefined]]

(***************************************************************************)
(* The handler of endpoints/reqline/parse.js around one call of            *)
(* ReqlineParser.parseAndExecute (services/reqline/parser.js)              *)
(***************************************************************************)
\* helpers.http_statuses.OK and helpers.http_statuses.BAD_REQUEST
OK == "OK"

BAD_REQUEST == "BAD_REQUEST"

NoReply == [status |-> "", data |-> [error |-> FALSE, message |-> ""]]

\* what the handler returns when parseAndExecute returns
handlerReturn(executionResult) == [status |-> OK, data |-> executionResult]

\* handlerCatch that answers BAD_REQUEST for validation errors only
handlerCatch_ValidationOnly(thrown) ==
    [status |-> IF thrown.code = VALIDATIONERR THEN BAD_REQUEST ELSE "INTERNAL_SERVER_ERROR",
     data   |-> [error |-> TRUE, message |-> thrown.message]]

\* what the handler returns from its catch block
handlerCatch(thrown) ==
    [status |-> BAD_REQUEST, data |-> [error |-> TRUE, message |-> thrown.message]]

\* the state of a second invocation that has not been started
NoPeer ==
    [reqline |-> <<>>, pc |-> "off", parsed |-> InitialResult, error |-> NoError2,
     calls |-> <<>>, startTimestamp |-> 0, fullUrl |-> <<>>, remote |-> NoRemote,
     result |-> NoResult, reply |-> NoReply]

Init ==
    /\ \/ \E n \in 1..MaxSegments :
             \E pieces \in [1..n -> Pieces], seps \in [1..(n - 1) -> Separators] :
                 reqline = Assemble(pieces, seps)
       \/ \E n \in 0..MaxExtras :
             \E head \in Heads, extras \in [1..n -> Extras] :
                 reqline = Extend(head, extras)
    /\ pc = "idle"
    /\ parsed = InitialResult
    /\ error = NoError2
    /\ calls = <<>>
    /\ now = 0
    /\ startTimestamp = 0
    /\ fullUrl = <<>>
    /\ remote = NoRemote
    /\ result = NoResult
    /\ reply = NoReply
    /\ peer = NoPeer

\* parseAndExecute that issues the outbound call before it validates
ParseAndExecute_CallBeforeValidation ==
    /\ pc = "idle"
    /\ \E v \in {parseReqlineSyntax(reqline)} :
           /\ calls' = Append(calls, OutboundCall(v.result))
           /\ IF v.err # NoError
              THEN /\ pc' = "thrown"
                   /\ error' = ValidationError(v.err)
                   /\ reply' = handlerCatch(ValidationError(v.err))
                   /\ UNCHANGED <<parsed, startTimestamp, fullUrl>>
              ELSE /\ pc' = "awaiting"
                   /\ parsed' = v.result
                   /\ startTimestamp' = now
                   /\ fullUrl' = buildFullUrl(v.result.url.s, v.result.query)
                   /\ UNCHANGED <<error, reply>>
    /\ UNCHANGED <<reqline, now, remote, result, peer>>

\* the handler calls parseAndExecute, which runs up to its await:
\* parseReqlineSyntax, then executeRequest reads the clock, builds the URL and
\* issues the outbound call; a validation error goes to the handler's catch
ParseAndExecute ==
    /\ pc = "idle"
    /\ \E v \in {parseReqlineSyntax(reqline)} :
           IF v.err # NoError
           THEN /\ pc' = "thrown"
                /\ error' = ValidationError(v.err)
                /\ reply' = handlerCatch(ValidationError(v.err))
                /\ UNCHANGED <<parsed, calls, startTimestamp, fullUrl>>
           ELSE /\ pc' = "awaiting"
                /\ parsed' = v.result
                /\ startTimestamp' = now
                /\ fullUrl' = buildFullUrl(v.result.url.s, v.result.query)
                /\ calls' = Append(calls, OutboundCall(v.result))
                /\ UNCHANGED <<error, reply>>
    /\ UNCHANGED <<reqline, now, remote, result, peer>>

\* a millisecond passes while the call is pending
Tick ==
    /\ pc = "awaiting"
    /\ now < MaxClock
    /\ now' = now + 1
    /\ UNCHANGED <<reqline, pc, parsed, error, calls, startTimestamp, fullUrl, remote, result,
                   reply, peer>>

\* the awaited call resolves: the rest of the try block, then the handler
\* returns
Resolve(response) ==
    /\ pc = "awaiting"
    /\ remote' = [kind |-> "response", response |-> response, message |-> ""]
    /\ result' = SuccessResult(parsed, fullUrl, response, startTimestamp, now)
    /\ reply' = handlerReturn(SuccessResult(parsed, fullUrl, response, startTimestamp, now))
    /\ pc' = "returned"
    /\ UNCHANGED <<reqline, parsed, error, calls, now, startTimestamp, fullUrl, peer>>

\* RejectWithResponse that issues the call again instead of returning
RejectWithResponse_Retry(response) ==
    /\ pc = "awaiting"
    /\ remote.kind = "none"
    /\ remote' = [kind |-> "errorResponse", response |-> response, message |-> ""]
    /\ calls' = Append(calls, OutboundCall(parsed))
    /\ UNCHANGED <<reqline, pc, parsed, error, now, startTimestamp, fullUrl, result, reply, peer>>

\* the awaited call rejects with an error that carries the remote response;
\* the catch block returns a result, and so does the handler
RejectWithResponse(response) ==
    /\ pc = "awaiting"
    /\ remote' = [kind |-> "errorResponse", response |-> response, message |-> ""]
    /\ result' = ErrorResult(parsed, response, startTimestamp, now)
    /\ reply' = handlerReturn(ErrorResult(parsed, response, startTimestamp, now))
    /\ pc' = "returned"
    /\ UNCHANGED <<reqline, parsed, error, calls, now, startTimestamp, fullUrl, peer>>

\* the awaited call rejects without a response: the catch block re-throws,
\* into the handler's catch
RejectWithoutResponse(message) ==
    /\ pc = "awaiting"
    /\ remote' = [kind |-> "transport", response |-> NoResponse, message |-> message]
    /\ error' = ExecutionError(message)
    /\ reply' = handlerCatch(ExecutionError(message))
    /\ pc' = "thrown"
    /\ UNCHANGED <<reqline, parsed, calls, now, startTimestamp, fullUrl, result, peer>>

Next ==
    \/ ParseAndExecute
    \/ Tick
    \/ \E response \in Responses : Resolve(response)
    \/ \E response \in ErrorResponses : RejectWithResponse(response)
    \/ \E message \in TransportMessages : RejectWithoutResponse(message)

Spec == Init /\ [][Next]_vars

(***************************************************************************)
(* Two invocations on the singleton parser, validator and executor: the    *)
(* second one's call-local variables are the fields of peer; the two share *)
(* the clock and interleave at the await of the outbound call              *)
(***************************************************************************)
PairReqlines ==
    {Chars(r) : r \in
        {"HTTP GET | URL http://a | QUERY {\"a\":1}",
         "HTTP POST | URL http://b | BODY {\"b\":2} | HEADERS {\"k\":\"v\"}",
         "HTTP PUT | URL http://a"}}

\* the variables of the first invocation
callVars == <<reqline, pc, parsed, error, calls, startTimestamp, fullUrl, remote, result, reply>>

InitPair ==
    /\ reqline \in PairReqlines
    /\ pc = "idle"
    /\ parsed = InitialResult
    /\ error = NoError2
    /\ calls = <<>>
    /\ now = 0
    /\ startTimestamp = 0
    /\ fullUrl = <<>>
    /\ remote = NoRemote
    /\ result = NoResult
    /\ reply = NoReply
    /\ \E r \in PairReqlines : peer = [NoPeer EXCEPT !.reqline = r, !.pc = "idle"]

\* PeerParseAndExecute with the result object of parseSegments shared by the
\* two invocations
PeerParseAndExecute_SharedResult ==
    /\ peer.pc = "idle"
    /\ \E v \in {parseReqlineSyntax(peer.reqline)} :
           IF v.err # NoError
           THEN /\ peer' = [peer EXCEPT !.pc = "thrown",
                                        !.error = ValidationError(v.err),
                                        !.reply = handlerCatch(ValidationError(v.err))]
                /\ UNCHANGED parsed
           ELSE /\ peer' = [peer EXCEPT !.pc = "awaiting",
                                        !.parsed = v.result,
                                        !.startTimestamp = now,
                                        !.fullUrl = buildFullUrl(v.result.url.s, v.result.query),
                                        !.calls = Append(@, OutboundCall(v.result))]
                /\ parsed' = v.result
    /\ UNCHANGED <<reqline, pc, error, calls, startTimestamp, fullUrl, remote, result, reply, now>>

\* the second invocation runs up to its await, or to the handler's catch
PeerParseAndExecute ==
    /\ peer.pc = "idle"
    /\ \E v \in {parseReqlineSyntax(peer.reqline)} :
           IF v.err # NoError
           THEN peer' = [peer EXCEPT !.pc = "thrown",
                                     !.error = ValidationError(v.err),
                                     !.reply = handlerCatch(ValidationError(v.err))]
           ELSE peer' = [peer EXCEPT !.pc = "awaiting",
                                     !.parsed = v.result,
                                     !.startTimestamp = now,
                                     !.fullUrl = buildFullUrl(v.result.url.s, v.result.query),
                                     !.calls = Append(@, OutboundCall(v.result))]
    /\ UNCHANGED <<callVars, now>>

\* a millisecond passes while only the second invocation's call is pending
PeerTick ==
    /\ peer.pc = "awaiting"
    /\ pc # "awaiting"
    /\ now < MaxClock
    /\ now' = now + 1
    /\ UNCHANGED <<callVars, peer>>

\* the second invocation's call resolves
PeerResolve(response) ==
    /\ peer.pc = "awaiting"
    /\ peer' = [peer EXCEPT
                   !.pc = "returned",
                   !.remote = [kind |-> "response", response |-> response, message |-> ""],
                   !.result = SuccessResult(peer.parsed, peer.fullUrl, response,
                                            peer.startTimestamp, now),
                   !.reply = handlerReturn(SuccessResult(peer.parsed, peer.fullUrl, response,
                                                         peer.startTimestamp, now))]
    /\ UNCHANGED <<callVars, now>>

\* the second invocation's call rejects with a remote response
PeerRejectWithResponse(response) ==
    /\ peer.pc = "awaiting"
    /\ peer' = [peer EXCEPT
                   !.pc = "returned",
                   !.remote = [kind |-> "errorResponse", response |-> response, message |-> ""],
                   !.result = ErrorResult(peer.parsed, response, peer.startTimestamp, now),
                   !.reply = handlerReturn(ErrorResult(peer.parsed, response,
                                                       peer.startTimestamp, now))]
    /\ UNCHANGED <<callVars, now>>

\* the second invocation's call rejects without a response
PeerRejectWithoutResponse(message) ==
    /\ peer.pc = "awaiting"
    /\ peer' = [peer EXCEPT
                   !.pc = "thrown",
                   !.remote = [kind |-> "transport", response |-> NoResponse, message |-> message],
                   !.error = ExecutionError(message),
                   !.reply = handlerCatch(ExecutionError(message))]
    /\ UNCHANGED <<callVars, now>>

NextPair ==
    \/ Next
    \/ PeerParseAndExecute
    \/ PeerTick
    \/ \E response \in Responses : PeerResolve(response)
    \/ \E response \in ErrorResponses : PeerRejectWithResponse(response)
    \/ \E message \in TransportMessages : PeerRejectWithoutResponse(message)

SpecPair == InitPair /\ [][NextPair]_vars

(***************************************************************************)
(* Properties                                                              *)
(***************************************************************************)
Cleaned == Trim(reqline)

HasPipe == "|" \in Range(reqline)

\* parseAndExecute has run up to its await or its throw
Called == pc # "idle"

\* the reqline failed validation
Rejected == pc = "thrown" /\ error.code = VALIDATIONERR

\* parseReqlineSyntax returned a ParsedRequest, which parseAndExecute holds
\* unchanged from then on; the outbound call is pending
Accepted == pc = "awaiting"

\* the outbound call, if any, has not settled
Pending == remote.kind = "none"

RawSegments == Split(Cleaned, "|")

TrimmedSegments ==
    LET raw == RawSegments IN [i \in 1..Len(raw) |-> Trim(raw[i])]

\* the text of a segment before its first space
FirstWord(segment) ==
    IF " " \in Range(segment)
    THEN SubSeq(segment, 1, (CHOOSE i \in 1..Len(segment) :
                                 segment[i] = " " /\ \A j \in 1..(i - 1) : segment[j] # " ") - 1)
    ELSE segment

Keywords ==
    LET segments == TrimmedSegments
    IN  [i \in 1..Len(segments) |-> FirstWord(segments[i])]

Words == Split(Cleaned, " ")

\* every pipe has at least one space on each side
PipeSpacingValid ==
    LET s == Cleaned
    IN  \A i \in 1..Len(s) :
            s[i] = "|" =>
                /\ i > 1 /\ s[i - 1] = " "
                /\ i < Len(s) /\ s[i + 1] = " "

\* every pipe has exactly one space on each side
PipeSpacingExact ==
    /\ PipeSpacingValid
    /\ LET s == Cleaned
       IN  \A i \in 1..Len(s) :
               s[i] = "|" =>
                   /\ i > 2 => s[i - 2] # " "
                   /\ i + 2 <= Len(s) => s[i + 2] # " "

NoDoubleSpace(s) == \A i \in 1..(Len(s) - 1) : ~(s[i] = " " /\ s[i + 1] = " ")

\* a segment other than an HTTP segment that violates no rule at its index
SegmentWellFormed(segment, index) ==
    LET parts == parseSegmentParts(segment)
    IN  /\ segment # <<>>
        /\ parts.err = NoError
        /\ \/ parts.keyword = Chars("URL") /\ index = 1 /\ validateUrl(parts.value) = NoError
           \/ /\ parts.keyword \in {Chars("HEADERS"), Chars("QUERY"), Chars("BODY")}
              /\ JsonParse(parts.value).ok

C2_ExactPipeSpacing ==
    /\ Accepted => PipeSpacingExact /\ NoDoubleSpace(Cleaned)
    /\ (Called /\ HasPipe /\ ~PipeSpacingExact)
           => Rejected /\ error.message = INVALID_SPACING_AROUND_PIPE

\* C3 (as stated): headers, query and body of a returned ParsedRequest are
\* JSON objects, and the empty object when their keyword is absent.
C3_FieldsAreMappings ==
    Accepted =>
        /\ parsed.headers.t = "object" /\ parsed.query.t = "object" /\ parsed.body.t = "object"
        /\ LET keywords == Range(Keywords)
           IN  /\ Chars("HEADERS") \notin keywords => parsed.headers = EmptyObject
               /\ Chars("QUERY") \notin keywords => parsed.query = EmptyObject
               /\ Chars("BODY") \notin keywords => parsed.body = EmptyObject

\* C4: a returned ParsedRequest comes from a reqline of at least two segments,
\* HTTP at index 0, URL at index 1, HEADERS/QUERY/BODY after them; its method
\* is GET or POST and its url is http:// or https:// followed by something.
C4_MethodAndUrlPresent ==
    Accepted =>
        /\ LET keywords == Keywords
           IN  /\ Len(keywords) >= 2
               /\ keywords[1] = Chars("HTTP")
               /\ keywords[2] = Chars("URL")
               /\ \A i \in 3..Len(keywords) :
                      keywords[i] \in {Chars("HEADERS"), Chars("QUERY"), Chars("BODY")}
        /\ parsed.method.t = "string"
        /\ parsed.method.s \in {Chars("GET"), Chars("POST")}
        /\ parsed.url.t = "string"
        /\ \E scheme \in {Chars("http://"), Chars("https://")} :
               /\ SubSeq(parsed.url.s, 1, Len(scheme)) = scheme
               /\ Len(parsed.url.s) > Len(scheme)

C4_Witness ==
    /\ pc = "awaiting"
    /\ Len(Keywords) >= 3
    /\ parsed.method.s = Chars("POST")

\* C5: validation completes before any network activity: a reqline that breaks
\* a rule fails with that validation error and no outbound call is issued; a
\* call is issued only for the ParsedRequest parseReqlineSyntax returned.
C5_ValidationBeforeNetwork ==
    /\ Rejected \/ pc = "idle" => calls = <<>>
    /\ Pending =>
           LET v == parseReqlineSyntax(reqline)
           IN  /\ v.err # NoError =>
                      /\ calls = <<>>
                      /\ Called => Rejected /\ error.message = v.err
               /\ calls # <<>> => v.err = NoError /\ parsed = v.result

C5_Witness == Rejected /\ HasPipe /\ calls = <<>>

\* C6: a failure of the outbound call without a remote response never yields
\* an ExecutionResult: the call fails with code APPERR, which is not the code
\* of a validation error, and a message prefixed 'Request execution failed'.
C6_TransportErrorPropagates ==
    remote.kind = "transport" =>
        /\ pc = "thrown"
        /\ result = NoResult
        /\ error.code = APPERR
        /\ error.code # VALIDATIONERR
        /\ StartsWith(Chars(error.message), Chars("Request execution failed"))
        /\ EndsWith(Chars(error.message), Chars(remote.message))

C6_Witness == remote.kind = "transport" /\ pc = "thrown" /\ Len(calls) = 1

\* the status a remote response carries
RemoteStatus(response) ==
    IF response.statusCode # JsUndefined THEN response.statusCode ELSE response.status

\* C7 (as stated): whenever the remote server answers, http_status is the
\* status of the remote response and response_data its payload, verbatim.
C7_VerbatimResponse ==
    pc = "returned" =>
        /\ result.response.http_status = RemoteStatus(remote.response)
        /\ result.response.response_data = remote.response.data

\* C8: in every ExecutionResult, duration is exactly stop minus start, the
\* three are integers and duration is not negative.
C8_DurationExact ==
    pc = "returned" =>
        LET r == result.response
        IN  /\ r.duration = r.request_stop_timestamp - r.request_start_timestamp
            /\ r.duration \in Int
            /\ r.request_start_timestamp \in Int
            /\ r.request_stop_timestamp \in Int
            /\ r.duration >= 0

C8_Witness == pc = "returned" /\ result.response.duration > 0

RECURSIVE decodeURIComponent(_)
decodeURIComponent(s) ==
    IF s = <<>> THEN <<>>
    ELSE IF Head(s) = "%" /\ \E i \in 1..Len(UriEscapes) : Chars(UriEscapes[i][2]) = SubSeq(s, 1, 3)
    THEN <<UriEscapes[CHOOSE i \in 1..Len(UriEscapes) :
                          Chars(UriEscapes[i][2]) = SubSeq(s, 1, 3)][1]>>
         \o decodeURIComponent(SubSeq(s, 4, Len(s)))
    ELSE <<Head(s)>> \o decodeURIComponent(Tail(s))

\* C10: buildFullUrl returns the base unchanged for an empty query; otherwise
\* the base, then '?' ('&' if the base holds a '?'), then the entries as
\* key=value, percent-encoded, in entry order, joined by '&'; base and query
\* are left as the validator returned them.
C10_BuildFullUrl ==
    Accepted =>
        LET base    == parsed.url.s
            entries == ObjectEntries(parsed.query)
            url     == fullUrl
        IN  /\ entries = <<>> => url = base
            /\ entries # <<>> =>
                   /\ Len(url) > Len(base) + 1
                   /\ SubSeq(url, 1, Len(base)) = base
                   /\ url[Len(base) + 1] = IF "?" \in Range(base) THEN "&" ELSE "?"
                   /\ LET pairs == Split(SubSeq(url, Len(base) + 2, Len(url)), "&")
                      IN  /\ Len(pairs) = Len(entries)
                          /\ \A i \in 1..Len(pairs) :
                                 LET kv == Split(pairs[i], "=")
                                 IN  /\ Len(kv) = 2
                                     /\ Range(pairs[i]) \subseteq UriUnreserved \cup {"%", "="}
                                     /\ decodeURIComponent(kv[1]) = entries[i][1]
                                     /\ decodeURIComponent(kv[2]) = JsToString(entries[i][2])
            /\ calls[1].url = url
            /\ parsed = parseReqlineSyntax(reqline).result

C10_Witness ==
    /\ Accepted
    /\ Len(ObjectEntries(parsed.query)) >= 2
    /\ "?" \in Range(parsed.url.s)
    /\ " " \in Range(JsToString(ObjectEntries(parsed.query)[2][2]))

\* C11: GET issues a call with parsed.headers and no body, even when the
\* reqline has a BODY segment; POST issues a call with parsed.body and
\* parsed.headers; the call goes to the full URL built from url and query, and
\* the returned request record holds the parsed query, body, headers and that
\* same full URL.
C11_DispatchByMethod ==
    calls # <<>> =>
        /\ calls[1].method = parsed.method.s
        /\ calls[1].headers = parsed.headers
        /\ calls[1].url = buildFullUrl(parsed.url.s, parsed.query)
        /\ parsed.method.s = Chars("GET") => calls[1].body = JsUndefined
        /\ parsed.method.s = Chars("POST") => calls[1].body = parsed.body
        /\ pc = "returned" =>
               result.request = [query    |-> parsed.query,
                                 body     |-> parsed.body,
                                 headers  |-> parsed.headers,
                                 full_url |-> calls[1].url]

C11_Witness ==
    /\ pc = "returned"
    /\ parsed.method.s = Chars("GET")
    /\ Chars("BODY") \in Range(Keywords)
    /\ parsed.body # EmptyObject
    /\ calls[1].body = JsUndefined
    /\ remote.kind = "errorResponse"

\* C12: one invocation issues at most one outbound call: every step starts
\* before the call has settled and before parseAndExecute has returned or
\* thrown, leaves at most one call issued, and a step that settles the call
\* issues no further call and ends the invocation.
C12_AtMostOneCall ==
    [][/\ Len(calls') <= 1
       /\ remote.kind = "none"
       /\ pc \notin {"returned", "thrown"}
       /\ remote'.kind # "none" =>
              /\ calls' = calls
              /\ pc' \in {"returned", "thrown"}]_vars

C12_Witness ==
    /\ remote.kind = "errorResponse"
    /\ pc = "returned"
    /\ Len(calls) = 1
    /\ result.response.http_status = JsNumber("404")

HasLowerCase(s) == Range(s) \cap Range(LowerCaseLetters) # {}

\* the text of a segment after its first space
AfterFirstSpace(segment) == SubSeq(segment, Len(FirstWord(segment)) + 2, Len(segment))

\* the message C13 gives for a non-empty segment, from keyword and spacing
SegmentShapeMessage(segment) ==
    IF " " \notin Range(segment) THEN MISSING_SPACE_AFTER_KEYWORD
    ELSE IF HasLowerCase(FirstWord(segment)) THEN KEYWORDS_MUST_BE_UPPERCASE
    ELSE IF ~NoDoubleSpace(segment) THEN MULTIPLE_SPACES_FOUND
    ELSE NoError

\* the message C13 gives for the method of an HTTP segment
MethodMessage(method) ==
    IF HasLowerCase(method) THEN HTTP_METHOD_MUST_BE_UPPERCASE
    ELSE IF method \notin {Chars("GET"), Chars("POST")} THEN INVALID_HTTP_METHOD
    ELSE NoError

\* C13: in a piped reqline with valid pipe spacing the checks of a segment run
\* in a fixed order and the first failing one gives the message: missing space
\* after the keyword, keyword not uppercase, two spaces in a row, and for the
\* HTTP segment at index 0 then method not uppercase before method not GET or
\* POST. Checked for the first segment, and for the second one after a valid
\* HTTP segment.
C13_SegmentCheckOrder ==
    (Called /\ Pending /\ HasPipe /\ PipeSpacingValid) =>
        LET segments == TrimmedSegments
            first    == segments[1]
            shape    == SegmentShapeMessage(first)
        IN  /\ (first # <<>> /\ shape # NoError) => Rejected /\ error.message = shape
            /\ (first # <<>> /\ shape = NoError /\ FirstWord(first) = Chars("HTTP")
                /\ MethodMessage(AfterFirstSpace(first)) # NoError)
                   => Rejected /\ error.message = MethodMessage(AfterFirstSpace(first))
            /\ (first \in {Chars("HTTP GET"), Chars("HTTP POST")}
                /\ segments[2] # <<>> /\ SegmentShapeMessage(segments[2]) # NoError)
                   => Rejected /\ error.message = SegmentShapeMessage(segments[2])

C13_Witness ==
    /\ Rejected /\ HasPipe /\ PipeSpacingValid
    /\ TrimmedSegments[1] = Chars("HTTP get")
    /\ error.message = HTTP_METHOD_MUST_BE_UPPERCASE

\* the message C14 gives for an input without pipe that has these words
NoPipeMessage(words) ==
    IF Chars("HTTP") \notin words /\ Chars("http") \notin words THEN MISSING_HTTP_KEYWORD
    ELSE IF Chars("URL") \notin words /\ Chars("url") \notin words THEN MISSING_URL_KEYWORD
    ELSE MISSING_PIPE_DELIMITER

\* C14 (as stated): every non-empty input without a pipe fails with the
\* missing-HTTP, missing-URL or missing-pipe message, chosen in that order from
\* its space-delimited words.
C14_NoPipeNonEmpty ==
    (Called /\ reqline # <<>> /\ ~HasPipe)
        => Rejected /\ error.message = NoPipeMessage(Range(Split(reqline, " ")))

\* C14 (amended): every input without a pipe that is not empty once trimmed
\* is rejected with the missing-HTTP message if neither HTTP nor http is one of
\* its space-delimited words, else with the missing-URL message if neither URL
\* nor url is, else with the missing-pipe message; an input of spaces only is
\* rejected as empty.
C14_NoPipeDiagnostics ==
    (Called /\ ~HasPipe) =>
        /\ Rejected
        /\ calls = <<>>
        /\ error.message = IF Cleaned = <<>> THEN EMPTY_REQLINE
                           ELSE NoPipeMessage(Range(Words))

C14_Witness ==
    /\ Rejected /\ ~HasPipe
    /\ Chars("HTTP") \in Range(Words) /\ Chars("URL") \in Range(Words)
    /\ error.message = MISSING_PIPE_DELIMITER

\* the number of segments that carry this keyword
Occurrences(keyword) == Cardinality({i \in 1..Len(Keywords) : Keywords[i] = keyword})

\* the JSON value of the last segment that carries this keyword
LastValue(keyword) ==
    LET keywords == Keywords
        last     == CHOOSE i \in 1..Len(keywords) :
                        /\ keywords[i] = keyword
                        /\ \A j \in (i + 1)..Len(keywords) : keywords[j] # keyword
    IN  JsonParse(AfterFirstSpace(TrimmedSegments[last])).val

\* a valid HTTP segment, a valid URL segment, then segments of valid JSON
ValidWithJsonSegments ==
    /\ HasPipe /\ PipeSpacingValid
    /\ LET segments == TrimmedSegments
       IN  /\ segments[1] \in {Chars("HTTP GET"), Chars("HTTP POST")}
           /\ FirstWord(segments[2]) = Chars("URL")
           /\ \A i \in 2..Len(segments) : SegmentWellFormed(segments[i], i - 1)

\* C15: a reqline in which HEADERS, QUERY or BODY occurs more than once, each
\* time with valid JSON, is accepted without a duplicate error, and the field
\* of the ParsedRequest holds the value of the last occurrence.
C15_LastOccurrenceWins ==
    (Called /\ Pending /\ ValidWithJsonSegments) =>
        /\ Accepted
        /\ Chars("HEADERS") \in Range(Keywords) => parsed.headers = LastValue(Chars("HEADERS"))
        /\ Chars("QUERY") \in Range(Keywords) => parsed.query = LastValue(Chars("QUERY"))
        /\ Chars("BODY") \in Range(Keywords) => parsed.body = LastValue(Chars("BODY"))

C15_Witness ==
    /\ Accepted
    /\ Occurrences(Chars("QUERY")) = 2
    /\ JsonParse(AfterFirstSpace(TrimmedSegments[3])).val # parsed.query
    /\ parsed.query = JsonParse(AfterFirstSpace(TrimmedSegments[Len(TrimmedSegments)])).val

\* the one-to-one maps of 1..n onto itself
Reorderings(n) == {f \in [1..n -> 1..n] : \A i, j \in 1..n : f[i] = f[j] => i = j}

\* the reqline with its segments after HTTP and URL reordered by f
Reordered(f) ==
    LET segments == TrimmedSegments
    IN  Join(<<segments[1], segments[2]>>
             \o [i \in 1..(Len(segments) - 2) |-> segments[f[i] + 2]], Chars(" | "))

\* HEADERS, QUERY and BODY occur at most once each
AtMostOnceEach ==
    \A i, j \in 1..Len(Keywords) : Keywords[i] = Keywords[j] => i = j

\* C16: with HTTP at index 0, URL at index 1 and HEADERS, QUERY, BODY at most
\* once each after them, the reqline is accepted and every reordering of the
\* HEADERS/QUERY/BODY segments is accepted with the same ParsedRequest.
C16_OrderIrrelevant ==
    (Called /\ Pending /\ ValidWithJsonSegments /\ AtMostOnceEach) =>
        /\ Accepted
        /\ \A f \in Reorderings(Len(TrimmedSegments) - 2) :
               parseReqlineSyntax(Reordered(f)) = [err |-> NoError, result |-> parsed]

C16_Witness ==
    /\ Accepted /\ AtMostOnceEach
    /\ Keywords = <<Chars("HTTP"), Chars("URL"), Chars("BODY"), Chars("QUERY"), Chars("HEADERS")>>
    /\ parsed.headers # EmptyObject /\ parsed.query # EmptyObject /\ parsed.body # EmptyObject

\* segment i (from 1) breaks no rule: a valid HTTP segment first, or a valid
\* URL segment second, or a segment of valid JSON
Passing(segments, i) ==
    \/ i = 1 /\ segments[i] \in {Chars("HTTP GET"), Chars("HTTP POST")}
    \/ SegmentWellFormed(segments[i], i - 1)

\* C17: a misplaced or repeated HTTP or URL keyword fails at its own segment:
\* where every earlier segment passes and the segment itself is well spaced,
\* HTTP away from index 0 gives 'HTTP keyword must be first' and URL away from
\* index 1 gives 'URL keyword must be second', unless the keyword was accepted
\* before, which gives the 'can only appear once' message; the two 'Missing
\* required' messages of a piped reqline arise only when no segment carries
\* the keyword.
C17_PositionAndDuplicates ==
    (Called /\ Pending /\ HasPipe /\ PipeSpacingValid) =>
        LET segments == TrimmedSegments
            keywords == Keywords
        IN  /\ \A i \in 1..Len(segments) :
                   (/\ \A j \in 1..(i - 1) : Passing(segments, j)
                    /\ segments[i] # <<>>
                    /\ SegmentShapeMessage(segments[i]) = NoError)
                   => /\ (keywords[i] = Chars("HTTP") /\ i # 1)
                          => /\ Rejected
                             /\ error.message =
                                    IF \E j \in 1..(i - 1) : keywords[j] = Chars("HTTP")
                                    THEN DUPLICATE_HTTP_KEYWORD ELSE HTTP_MUST_BE_FIRST
                      /\ (keywords[i] = Chars("URL") /\ i # 2)
                          => /\ Rejected
                             /\ error.message =
                                    IF \E j \in 1..(i - 1) : keywords[j] = Chars("URL")
                                    THEN DUPLICATE_URL_KEYWORD ELSE URL_MUST_BE_SECOND
            /\ (Rejected /\ error.message = MISSING_HTTP_KEYWORD)
                   => Chars("HTTP") \notin Range(keywords)
            /\ (Rejected /\ error.message = MISSING_URL_KEYWORD)
                   => Chars("URL") \notin Range(keywords)

C17_Witness ==
    /\ Rejected /\ HasPipe /\ PipeSpacingValid
    /\ Keywords = <<Chars("HTTP"), Chars("HTTP")>>
    /\ error.message = DUPLICATE_HTTP_KEYWORD

\* httpFound, urlFound and result before the first segment is scanned
ScanStart ==
    [err |-> NoError, result |-> InitialResult, httpFound |-> FALSE, urlFound |-> FALSE]

\* C18: the error reported is that of the first violated rule in scan order:
\* a pipe without a space on one of its sides gives 'Invalid spacing around
\* pipe delimiter' whatever the segments hold, and with valid pipe spacing the
\* message is the one the lowest-index failing segment raises, whatever the
\* segments after it hold.
C18_FirstViolationWins ==
    (Called /\ Pending /\ HasPipe) =>
        /\ ~PipeSpacingValid => Rejected /\ error.message = INVALID_SPACING_AROUND_PIPE
        /\ PipeSpacingValid =>
               LET segments == TrimmedSegments
                   failing  == {i \in 1..Len(segments) : ~Passing(segments, i)}
                   lowest   == CHOOSE i \in failing : \A j \in failing : i <= j
               IN  failing # {} =>
                       /\ Rejected
                       /\ error.message =
                              forEachSegment(SubSeq(segments, 1, lowest), 0, ScanStart).err
                       /\ error.message # NoError

C18_Witness ==
    /\ Rejected /\ HasPipe /\ ~PipeSpacingValid
    /\ TrimmedSegments[1] = Chars("HTTP PUT")
    /\ error.message = INVALID_SPACING_AROUND_PIPE

\* C19: the handler answers OK with the ExecutionResult whenever
\* parseAndExecute returns one, whatever remote status it carries, and
\* BAD_REQUEST with {error: true, message} whenever parseAndExecute throws, a
\* validation error and an execution error alike; it has answered exactly when
\* parseAndExecute has returned or thrown.
C19_HandlerReplies ==
    /\ pc = "returned" => reply = [status |-> OK, data |-> result]
    /\ pc = "thrown" =>
           /\ reply.status = BAD_REQUEST
           /\ reply.data = [error |-> TRUE, message |-> error.message]
           /\ error.message # ""
    /\ pc \in {"idle", "awaiting"} <=> reply = NoReply

C19_Witness ==
    /\ pc = "thrown"
    /\ error.code = APPERR
    /\ reply.status = BAD_REQUEST
    /\ reply.data.message = "Request execution failed: timeout of 10000ms exceeded"

\* the first invocation's variables, as the fields of peer
Own ==
    [reqline |-> reqline, pc |-> pc, parsed |-> parsed, error |-> error, calls |-> calls,
     startTimestamp |-> startTimestamp, fullUrl |-> fullUrl, remote |-> remote,
     result |-> result, reply |-> reply]

\* what invocation c holds follows from its own reqline and its own remote
\* answer (and the clock, for the two timestamps)
DependsOnOwn(c) ==
    LET v   == parseReqlineSyntax(c.reqline)
        url == buildFullUrl(v.result.url.s, v.result.query)
    IN  /\ c.pc = "idle" => c.calls = <<>> /\ c.parsed = InitialResult
        /\ (c.pc # "idle" /\ v.err # NoError) =>
               /\ c.pc = "thrown"
               /\ c.error = ValidationError(v.err)
               /\ c.calls = <<>>
        /\ (c.pc # "idle" /\ v.err = NoError) =>
               /\ c.parsed = v.result
               /\ c.fullUrl = url
               /\ c.calls = <<OutboundCall(v.result)>>
               /\ c.pc = "thrown" => c.error = ExecutionError(c.remote.message)
               /\ c.pc = "returned" =>
                      c.result =
                          IF c.remote.kind = "response"
                          THEN SuccessResult(v.result, url, c.remote.response, c.startTimestamp,
                                             c.result.response.request_stop_timestamp)
                          ELSE ErrorResult(v.result, c.remote.response, c.startTimestamp,
                                           c.result.response.request_stop_timestamp)

\* C20: two invocations interleaved at the await of their outbound calls are
\* independent: the ParsedRequest, the request fields of the result and the
\* error of each follow from its own reqline and its own remote answer, never
\* from the other invocation.
C20_Independent == DependsOnOwn(Own) /\ DependsOnOwn(peer)

C20_Witness ==
    /\ pc = "awaiting"
    /\ peer.pc = "returned"
    /\ peer.reqline # reqline
    /\ peer.startTimestamp > startTimestamp
    /\ peer.parsed # parsed
    /\ peer.result.request.full_url # fullUrl

====
